---- MODULE Spec2Model ----
(***************************************************************************)
(* GhciWriter (src/ghci/writer.rs): a clonable AsyncWrite sink over        *)
(* tokio Stdout / Stderr / Sink or a shared in-memory DuplexStream.        *)
(*                                                                         *)
(* The DuplexStream variant is Compat<Arc<Mutex<Compat<DuplexStream>>>>    *)
(* with async_dup's Arc and Mutex.  async_dup implements AsyncWrite for    *)
(* &Mutex<T> as  Pin::new(&mut *self.lock()).poll_x(..)  where lock() is a *)
(* BLOCKING lock: the calling thread waits inside lock() until the guard   *)
(* is free, runs the delegated poll, and drops the guard when the          *)
(* statement ends.  The pipe behind a DuplexStream is tokio's io::util::   *)
(* mem::Pipe: a byte buffer of max_buf_size bytes, an is_closed flag, and  *)
(* ONE read_waker slot and ONE write_waker slot.                           *)
(*                                                                         *)
(* One task owns each handle.  A poll of a DuplexStream handle is split    *)
(* into its steps (enter lock(), get the guard, delegated poll with guard  *)
(* drop and return) so that polls of clones running on different worker    *)
(* threads interleave.  tokio's cooperative budget is not modelled.        *)
(***************************************************************************)
EXTENDS Integers, Sequences, FiniteSets, TLC

\* ---- bounds ----
MaxHandles == 3      \* handle slots (constructed or cloned)
MaxLen     == 2      \* longest buffer passed to one write call
MaxBuf     == 2      \* max_buf_size of a pipe (argument of tokio::io::duplex)
MaxWrites  == 3      \* write calls issued in all
MaxCtl     == 1      \* flush / shutdown calls in progress at once
SeqWrites  == 2      \* write calls issued in all by the sequential caller of KindSpec
LiveWrites == 3      \* write calls issued in all under FairSpec

Handles == 1..MaxHandles
Pipes   == {1, 2}
Kinds   == {"Stdout", "Stderr", "DuplexStream", "Sink"}
Ops     == {"write", "flush", "shutdown"}

VARIABLES
    kind,        \* kind[h]: Kind tag of handle h, "None" while the slot is unused
    live,        \* live[h]: constructed and not yet dropped
    arc,         \* arc[h]: the Arc<Mutex<..>> (pipe) a DuplexStream handle refers to, else 0
    parent,      \* parent[h]: the handle h was cloned from, 0 for a constructor call
    pc,          \* pc[h]: position of h's owner task in its current call
    op,          \* op[h]: operation of the current call
    buf,         \* buf[h]: buffer argument of the current write call
    nw,          \* nw[h]: write calls issued so far on h
    notified,    \* notified[h]: task woken while it was still inside its poll
    locked,      \* locked[p]: async_dup Mutex of pipe p is held
    strong,      \* strong[p]: strong count of the Arc around pipe p
    wrapped,     \* wrapped[p]: the DuplexStream of p was moved into a GhciWriter
    buffer,      \* buffer[p]: Pipe::buffer
    is_closed,   \* is_closed[p]: Pipe::is_closed
    write_waker, \* write_waker[p]: Pipe::write_waker (a task, 0 = None)
    read_waker,  \* read_waker[p]: Pipe::read_waker is Some (of the reader task)
    rpc,         \* rpc[p]: reader task of p: "run", "parked", "eof" (it has read
                 \* end-of-stream), "dropped"
    delivered,   \* delivered[p]: bytes the reader has read out of p
    acc,         \* acc[p]: segments reported accepted by write calls on p, in return order
    blk,         \* blk[h]: bytes handed to the blocking task of a Stdout/Stderr handle
    out,         \* out[k]: bytes that reached the process-wide stdout / stderr
    sent,        \* sent[k]: segments reported accepted by write calls on handles of
                 \* kind k (Stdout / Stderr), in return order
    last         \* last: the return this step made to a caller (handle, operation,
                 \* buffer length, Poll value), NoEvent when it made none

vars == <<kind, live, arc, parent, pc, op, buf, nw, notified, locked, strong,
          wrapped, buffer, is_closed, write_waker, read_waker, rpc, delivered,
          acc, blk, out, sent, last>>

hvars == <<kind, live, arc, parent>>
pvars == <<buffer, is_closed, write_waker, read_waker>>
rvars == <<rpc, delivered>>
svars == <<blk, out, sent>>

\* ---- Poll<io::Result<usize>> values ----
NoRes      == [t |-> "None", n |-> 0]
Pending    == [t |-> "Pending", n |-> 0]
Ready(n)   == [t |-> "Ok", n |-> n]
BrokenPipe == [t |-> "BrokenPipe", n |-> 0]

NoEvent == [h |-> 0, op |-> "none", len |-> 0, r |-> NoRes]

Min(a, b) == IF a < b THEN a ELSE b

\* The bytes of the k-th write call of handle h with a buffer of n bytes.
Bytes(h, k, n) == [i \in 1..n |-> h * 100 + k * 10 + i]
HandleOf(b) == b \div 100
CallOf(b)   == b \div 10

Take(s, n) == SubSeq(s, 1, n)
Drop(s, n) == SubSeq(s, n + 1, Len(s))

RECURSIVE Sum(_, _)
Sum(f, S) == IF S = {} THEN 0
             ELSE LET x == CHOOSE y \in S : TRUE IN f[x] + Sum(f, S \ {x})

RECURSIVE Flat(_)
Flat(ss) == IF ss = <<>> THEN <<>> ELSE Head(ss) \o Flat(Tail(ss))

\* ---- handle slots ----
Free == {h \in Handles : kind[h] = "None"}
NextFree == CHOOSE h \in Free : \A g \in Free : h <= g

Init ==
    /\ kind = [h \in Handles |-> "None"]
    /\ live = [h \in Handles |-> FALSE]
    /\ arc = [h \in Handles |-> 0]
    /\ parent = [h \in Handles |-> 0]
    /\ pc = [h \in Handles |-> "idle"]
    /\ op = [h \in Handles |-> "none"]
    /\ buf = [h \in Handles |-> <<>>]
    /\ nw = [h \in Handles |-> 0]
    /\ notified = [h \in Handles |-> FALSE]
    /\ locked = [p \in Pipes |-> FALSE]
    /\ strong = [p \in Pipes |-> 0]
    /\ wrapped = [p \in Pipes |-> FALSE]
    /\ buffer = [p \in Pipes |-> <<>>]
    /\ is_closed = [p \in Pipes |-> FALSE]
    /\ write_waker = [p \in Pipes |-> 0]
    /\ read_waker = [p \in Pipes |-> FALSE]
    /\ rpc = [p \in Pipes |-> "run"]
    /\ delivered = [p \in Pipes |-> <<>>]
    /\ acc = [p \in Pipes |-> <<>>]
    /\ blk = [h \in Handles |-> <<>>]
    /\ out = [k \in {"Stdout", "Stderr"} |-> <<>>]
    /\ sent = [k \in {"Stdout", "Stderr"} |-> <<>>]
    /\ last = NoEvent

\* ---- wakers ----
\* Waker::wake of task w: a parked task becomes runnable; a task still inside
\* its poll is polled again after that poll returns; 0 is "no waker stored".
Running(h) == pc[h] \in {"lock", "inner"}
WakePc(f, w) == IF w # 0 /\ f[w] = "parked" THEN [f EXCEPT ![w] = "runnable"] ELSE f
WakeNotified(w) == IF w # 0 /\ Running(w) THEN [notified EXCEPT ![w] = TRUE] ELSE notified
WakeReader(f, p, on) == IF on /\ f[p] = "parked" THEN [f EXCEPT ![p] = "run"] ELSE f

\* ---- constructors ----
NewHandle(h, k, p, from) ==
    /\ kind' = [kind EXCEPT ![h] = k]
    /\ live' = [live EXCEPT ![h] = TRUE]
    /\ arc' = [arc EXCEPT ![h] = p]
    /\ parent' = [parent EXCEPT ![h] = from]
    /\ last' = NoEvent

stdout ==
    /\ Free # {}
    /\ NewHandle(NextFree, "Stdout", 0, 0)
    /\ UNCHANGED <<pc, op, buf, nw, notified, pvars, rvars, svars, locked, strong,
                   wrapped, acc>>

stderr ==
    /\ Free # {}
    /\ NewHandle(NextFree, "Stderr", 0, 0)
    /\ UNCHANGED <<pc, op, buf, nw, notified, pvars, rvars, svars, locked, strong,
                   wrapped, acc>>

sink ==
    /\ Free # {}
    /\ NewHandle(NextFree, "Sink", 0, 0)
    /\ UNCHANGED <<pc, op, buf, nw, notified, pvars, rvars, svars, locked, strong,
                   wrapped, acc>>

\* duplex_stream takes the DuplexStream by value: a pipe is wrapped once.
duplex_stream(p) ==
    /\ Free # {}
    /\ ~wrapped[p]
    /\ NewHandle(NextFree, "DuplexStream", p, 0)
    /\ wrapped' = [wrapped EXCEPT ![p] = TRUE]
    /\ strong' = [strong EXCEPT ![p] = 1]
    /\ UNCHANGED <<pc, op, buf, nw, notified, pvars, rvars, svars, locked, acc>>

\* ---- Clone (impl Clone for GhciWriter) ----
\* Stdout => Self::stdout(), Stderr => Self::stderr(), Sink => Self::sink(),
\* DuplexStream(x) => Kind::DuplexStream(x.clone()).
CloneKindSwapped(k) ==
    CASE k = "Stdout" -> "Stdout"
      [] k = "Stderr" -> "Stdout"
      [] k = "DuplexStream" -> "DuplexStream"
      [] k = "Sink" -> "Sink"

CloneKind(k) ==
    CASE k = "Stdout" -> "Stdout"
      [] k = "Stderr" -> "Stderr"
      [] k = "DuplexStream" -> "DuplexStream"
      [] k = "Sink" -> "Sink"

\* x.clone() of the async_dup Arc: a new reference to the same Mutex.
CloneArcOther(h) ==
    IF kind[h] = "DuplexStream" THEN (IF arc[h] = 1 THEN 2 ELSE 1) ELSE 0

CloneArc(h) == IF kind[h] = "DuplexStream" THEN arc[h] ELSE 0

\* The Mutexes clone must get before it returns: none.  Arc::clone adds one
\* to the reference count; the constructors of the other kinds touch nothing
\* shared.  (clone takes &self: the borrow of a write, flush or shutdown
\* future in progress on h itself rules out a clone of h meanwhile.)
CloneLocksMutex(h) == IF arc[h] # 0 THEN {arc[h]} ELSE {}

CloneLocks(h) == {}

clone(h) ==
    /\ live[h]
    /\ pc[h] = "idle"
    /\ Free # {}
    /\ \A p \in CloneLocks(h) : ~locked[p]
    /\ NewHandle(NextFree, CloneKind(kind[h]), CloneArc(h), h)
    /\ strong' = IF CloneArc(h) # 0
                 THEN [strong EXCEPT ![CloneArc(h)] = @ + 1]
                 ELSE strong
    /\ UNCHANGED <<pc, op, buf, nw, notified, pvars, rvars, svars, locked, wrapped,
                   acc>>

\* ---- Drop of a handle ----
\* Dropping the last Arc drops the DuplexStream, whose Drop closes the pipe
\* (Pipe::close_write: is_closed = true, wake the reader).
LastRefAny(p) == TRUE

LastRef(p) == strong[p] = 1

DropHandle(h) ==
    /\ live[h]
    /\ pc[h] = "idle"
    /\ live' = [live EXCEPT ![h] = FALSE]
    /\ IF arc[h] # 0
       THEN /\ strong' = [strong EXCEPT ![arc[h]] = @ - 1]
            /\ IF LastRef(arc[h])
               THEN /\ is_closed' = [is_closed EXCEPT ![arc[h]] = TRUE]
                    /\ read_waker' = [read_waker EXCEPT ![arc[h]] = FALSE]
                    /\ rpc' = WakeReader(rpc, arc[h], read_waker[arc[h]])
               ELSE UNCHANGED <<is_closed, read_waker, rpc>>
       ELSE UNCHANGED <<strong, is_closed, read_waker, rpc>>
    /\ last' = NoEvent
    /\ UNCHANGED <<kind, arc, parent, pc, op, buf, nw, notified, svars, locked,
                   wrapped, buffer, write_waker, delivered, acc>>

\* ---- the match on inner.kind (poll_write / poll_flush / poll_shutdown) ----
\* Every arm returns the backend's Poll value as it is.
DispatchSwallow(r) == IF r.t = "BrokenPipe" THEN Ready(0) ELSE r

Dispatch(r) == r

\* Where the owner task stands after a poll returned r.  A Pending poll
\* parks the task, unless its waker fired while it was still polling.
AfterPoll(r, woken) ==
    IF r.t = "Pending" THEN (IF woken THEN "runnable" ELSE "parked") ELSE "idle"

\* The poll of operation o with buffer b on handle h returns r to its caller.
Return(h, o, b, r) ==
    /\ last' = [h |-> h, op |-> o, len |-> Len(b), r |-> Dispatch(r)]
    /\ pc' = [pc EXCEPT ![h] = AfterPoll(Dispatch(r), notified[h])]
    /\ notified' = [notified EXCEPT ![h] = FALSE]
    /\ IF AfterPoll(Dispatch(r), notified[h]) = "idle"
       THEN /\ op' = [op EXCEPT ![h] = "none"]
            /\ buf' = [buf EXCEPT ![h] = <<>>]
       ELSE /\ op' = [op EXCEPT ![h] = o]
            /\ buf' = [buf EXCEPT ![h] = b]

\* ---- Kind::Sink: tokio::io::sink ----
SinkPollShort(o, b) == IF o = "write" /\ Len(b) > 1 THEN Ready(Len(b) - 1) ELSE Ready(0)

SinkPoll(o, b) == IF o = "write" THEN Ready(Len(b)) ELSE Ready(0)

PollSink(h, o, b) ==
    /\ Return(h, o, b, SinkPoll(o, b))
    /\ UNCHANGED <<pvars, rvars, svars, locked, acc>>

\* ---- Kind::Stdout / Kind::Stderr: tokio's Blocking<std::io::Stdout> ----
\* Each handle has its own Blocking: Idle accepts the bytes and hands them to
\* a blocking task, Busy polls that task.  blk[h] = <<>> is Idle, <<seg>> Busy.
StdPoll(h, o, b) ==
    IF blk[h] # <<>> THEN Pending
    ELSE IF o = "write" THEN Ready(Len(b)) ELSE Ready(0)

PollStd(h, o, b) ==
    /\ Return(h, o, b, StdPoll(h, o, b))
    /\ blk' = IF StdPoll(h, o, b).t = "Ok" /\ o = "write"
              THEN [blk EXCEPT ![h] = <<b>>]
              ELSE blk
    /\ sent' = IF StdPoll(h, o, b).t = "Ok" /\ o = "write"
               THEN [sent EXCEPT ![kind[h]] = Append(@, b)]
               ELSE sent
    /\ UNCHANGED <<pvars, rvars, out, locked, acc>>

\* The blocking task writes its bytes to the process-wide stream and wakes
\* the task that waits for it.
BlockingDone(h) ==
    /\ blk[h] # <<>>
    /\ out' = [out EXCEPT ![kind[h]] = @ \o blk[h][1]]
    /\ blk' = [blk EXCEPT ![h] = <<>>]
    /\ pc' = WakePc(pc, h)
    /\ last' = NoEvent
    /\ UNCHANGED <<hvars, op, buf, nw, notified, pvars, rvars, locked, strong,
                   wrapped, acc, sent>>

\* ---- Kind::DuplexStream: the poll enters Mutex::lock ----
PollDuplex(h, o, b) ==
    /\ pc' = [pc EXCEPT ![h] = "lock"]
    /\ op' = [op EXCEPT ![h] = o]
    /\ buf' = [buf EXCEPT ![h] = b]
    /\ last' = NoEvent
    /\ UNCHANGED <<notified, pvars, rvars, svars, locked, acc>>

\* The task of h polls operation o with buffer b: the match on the kind.
Poll(h, o, b) ==
    CASE kind[h] = "Stdout" -> PollStd(h, o, b)
      [] kind[h] = "Stderr" -> PollStd(h, o, b)
      [] kind[h] = "DuplexStream" -> PollDuplex(h, o, b)
      [] kind[h] = "Sink" -> PollSink(h, o, b)

\* ---- a caller starts, resumes or abandons an operation ----
\* write(buf).await / flush().await / shutdown().await: the future is
\* created and polled by the calling task.
Call(h, o, n) ==
    /\ live[h]
    /\ pc[h] = "idle"
    /\ o = "write" => n >= 1 /\ Sum(nw, Handles) < MaxWrites
    /\ o # "write" => n = 0 /\ Cardinality({g \in Handles : op[g] \in {"flush", "shutdown"}}) < MaxCtl
    /\ nw' = IF o = "write" THEN [nw EXCEPT ![h] = @ + 1] ELSE nw
    /\ Poll(h, o, IF o = "write" THEN Bytes(h, nw[h] + 1, n) ELSE <<>>)
    /\ UNCHANGED <<hvars, strong, wrapped>>

\* A woken task polls its pending operation again.
Repoll(h) ==
    /\ pc[h] = "runnable"
    /\ Poll(h, op[h], buf[h])
    /\ UNCHANGED <<hvars, nw, strong, wrapped>>

\* Dropping the future of an operation that has not completed.  Between two
\* polls the future holds nothing: the MutexGuard lives only inside a poll.
Cancel(h) ==
    /\ pc[h] \in {"parked", "runnable"}
    /\ pc' = [pc EXCEPT ![h] = "idle"]
    /\ op' = [op EXCEPT ![h] = "none"]
    /\ buf' = [buf EXCEPT ![h] = <<>>]
    /\ last' = NoEvent
    /\ UNCHANGED <<hvars, nw, notified, pvars, rvars, svars, locked, strong,
                   wrapped, acc>>

\* ---- Kind::DuplexStream: async_dup Mutex around the pipe's write half ----
\* Mutex::lock returns only once no other guard exists; until then the
\* thread stays inside lock().
LockFreeAlways(p) == TRUE

LockFree(p) == ~locked[p]

Lock(h) ==
    /\ pc[h] = "lock"
    /\ LockFree(arc[h])
    /\ locked' = [locked EXCEPT ![arc[h]] = TRUE]
    /\ pc' = [pc EXCEPT ![h] = "inner"]
    /\ last' = NoEvent
    /\ UNCHANGED <<hvars, op, buf, nw, notified, pvars, rvars, svars, strong,
                   wrapped, acc>>

\* Pipe::poll_write_internal: BrokenPipe when closed; Pending (and the
\* caller's waker stored in the single write_waker slot) when full; else
\* the first min(len, avail) bytes are appended and the reader is woken.
Avail(p) == MaxBuf - Len(buffer[p])

poll_write_internal(p, b) ==
    IF is_closed[p] THEN BrokenPipe
    ELSE IF Avail(p) = 0 THEN Pending
    ELSE Ready(Min(Len(b), Avail(p)))

extend_front(bf, s) == IF Len(bf) > 1 THEN <<Head(bf)>> \o s \o Tail(bf) ELSE s \o bf

extend_dup(bf, s) == bf \o s \o s

extend_before(bf, s) == s \o bf

extend_from_slice(bf, s) == bf \o s

InnerWrite(h, p) ==
    IF poll_write_internal(p, buf[h]).t = "Ok"
    THEN /\ buffer' = [buffer EXCEPT ![p] =
                 extend_from_slice(@, Take(buf[h], poll_write_internal(p, buf[h]).n))]
         /\ read_waker' = [read_waker EXCEPT ![p] = FALSE]
         /\ rpc' = WakeReader(rpc, p, read_waker[p])
         /\ UNCHANGED <<write_waker, is_closed>>
    ELSE /\ write_waker' = IF poll_write_internal(p, buf[h]).t = "Pending"
                           THEN [write_waker EXCEPT ![p] = h]
                           ELSE write_waker
         /\ UNCHANGED <<buffer, read_waker, rpc, is_closed>>

\* Pipe::poll_flush is Ready(Ok(())).
InnerFlushClear(h, p) ==
    /\ buffer' = [buffer EXCEPT ![p] = <<>>]
    /\ UNCHANGED <<read_waker, rpc, write_waker, is_closed>>

InnerFlush(h, p) ==
    UNCHANGED <<buffer, read_waker, rpc, write_waker, is_closed>>

\* Pipe::poll_shutdown: close_write (is_closed = true, wake the reader).
InnerShutdownCounted(h, p) ==
    IF strong[p] = 1
    THEN /\ is_closed' = [is_closed EXCEPT ![p] = TRUE]
         /\ read_waker' = [read_waker EXCEPT ![p] = FALSE]
         /\ rpc' = WakeReader(rpc, p, read_waker[p])
         /\ UNCHANGED <<buffer, write_waker>>
    ELSE UNCHANGED <<buffer, read_waker, rpc, write_waker, is_closed>>

InnerShutdown(h, p) ==
    /\ is_closed' = [is_closed EXCEPT ![p] = TRUE]
    /\ read_waker' = [read_waker EXCEPT ![p] = FALSE]
    /\ rpc' = WakeReader(rpc, p, read_waker[p])
    /\ UNCHANGED <<buffer, write_waker>>

\* What the delegated poll of the pipe returns.
InnerRet(h) ==
    IF op[h] = "write" THEN poll_write_internal(arc[h], buf[h]) ELSE Ready(0)

\* What the handle reports accepted to the caller of a write.
Accepted(h) ==
    IF op[h] = "write" /\ Dispatch(InnerRet(h)).t = "Ok"
    THEN Take(buf[h], Dispatch(InnerRet(h)).n)
    ELSE <<>>

\* The MutexGuard is a temporary of the poll's one statement: it is gone when
\* the poll returns r, whatever r is.
GuardKeptWhilePending(r) == r.t = "Pending"

GuardKeptOnError(r) == r.t = "BrokenPipe"

GuardHeldAfter(r) == FALSE

\* With the guard held: the delegated poll on the pipe; the guard is dropped
\* at the end of the statement, whatever the poll returned, and the value is
\* returned to the caller.
Inner(h) ==
    /\ pc[h] = "inner"
    /\ CASE op[h] = "write" -> InnerWrite(h, arc[h])
         [] op[h] = "flush" -> InnerFlush(h, arc[h])
         [] op[h] = "shutdown" -> InnerShutdown(h, arc[h])
    /\ locked' = [locked EXCEPT ![arc[h]] = GuardHeldAfter(InnerRet(h))]
    /\ Return(h, op[h], buf[h], InnerRet(h))
    /\ acc' = IF Accepted(h) # <<>>
              THEN [acc EXCEPT ![arc[h]] = Append(@, Accepted(h))]
              ELSE acc
    /\ UNCHANGED <<hvars, nw, delivered, svars, strong, wrapped>>

\* ---- the far end of the pipe (the reader's DuplexStream) ----
\* Pipe::poll_read_internal with room for c bytes: moves min(len, c) bytes
\* and wakes write_waker; end-of-stream (a read of 0 bytes) when empty and
\* closed, after which the reader reads no more; else parks.
poll_read(p, c) ==
    /\ wrapped[p]
    /\ rpc[p] = "run"
    /\ IF buffer[p] # <<>>
       THEN /\ delivered' = [delivered EXCEPT ![p] = @ \o Take(buffer[p], Min(Len(buffer[p]), c))]
            /\ buffer' = [buffer EXCEPT ![p] = Drop(@, Min(Len(@), c))]
            /\ write_waker' = [write_waker EXCEPT ![p] = 0]
            /\ pc' = WakePc(pc, write_waker[p])
            /\ notified' = WakeNotified(write_waker[p])
            /\ UNCHANGED <<read_waker, rpc>>
       ELSE IF is_closed[p]
       THEN /\ rpc' = [rpc EXCEPT ![p] = "eof"]
            /\ UNCHANGED <<delivered, buffer, write_waker, pc, notified, read_waker>>
       ELSE /\ read_waker' = [read_waker EXCEPT ![p] = TRUE]
            /\ rpc' = [rpc EXCEPT ![p] = "parked"]
            /\ UNCHANGED <<delivered, buffer, write_waker, pc, notified>>
    /\ last' = NoEvent
    /\ UNCHANGED <<hvars, op, buf, nw, is_closed, svars, locked, strong, wrapped, acc>>

\* Drop of the reader's DuplexStream: Pipe::close_read (is_closed = true,
\* wake the writer whose waker is stored).
ReaderDrop(p) ==
    /\ wrapped[p]
    /\ rpc[p] # "dropped"
    /\ rpc' = [rpc EXCEPT ![p] = "dropped"]
    /\ is_closed' = [is_closed EXCEPT ![p] = TRUE]
    /\ write_waker' = [write_waker EXCEPT ![p] = 0]
    /\ pc' = WakePc(pc, write_waker[p])
    /\ notified' = WakeNotified(write_waker[p])
    /\ last' = NoEvent
    /\ UNCHANGED <<hvars, op, buf, nw, buffer, read_waker, delivered, svars,
                   locked, strong, wrapped, acc>>

\* ---- the shared-pipe world: one pipe, its reader, a handle and its clones ----
Next ==
    \/ duplex_stream(1)
    \/ \E h \in Handles : clone(h)
    \/ \E h \in Handles : DropHandle(h)
    \/ \E h \in Handles, o \in Ops, n \in 0..MaxLen : Call(h, o, n)
    \/ \E h \in Handles : Repoll(h)
    \/ \E h \in Handles : Cancel(h)
    \/ \E h \in Handles : Lock(h)
    \/ \E h \in Handles : Inner(h)
    \/ \E c \in 1..MaxBuf : poll_read(1, c)
    \/ ReaderDrop(1)

Spec == Init /\ [][Next]_vars

\* ---- all four kinds and two pipes, used by one task ----
\* The caller starts an operation only when none is in progress.
SeqCall(h, o, n) ==
    /\ \A g \in Handles : pc[g] = "idle"
    /\ Sum(nw, Handles) < SeqWrites
    /\ Call(h, o, n)

KindNext ==
    \/ stdout
    \/ stderr
    \/ sink
    \/ \E p \in Pipes : duplex_stream(p)
    \/ \E h \in Handles : clone(h)
    \/ \E h \in Handles, o \in Ops, n \in 0..MaxLen : SeqCall(h, o, n)
    \/ \E h \in Handles : Repoll(h)
    \/ \E h \in Handles : Cancel(h)
    \/ \E h \in Handles : BlockingDone(h)
    \/ \E h \in Handles : Lock(h)
    \/ \E h \in Handles : Inner(h)
    \/ \E p \in Pipes, c \in 1..MaxBuf : poll_read(p, c)

KindSpec == Init /\ [][KindNext]_vars

\* ---- the shared-pipe world under fair scheduling ----
\* A thread inside a poll keeps running: with the guard held it finishes the
\* delegated poll and drops the guard; async_dup's Mutex hands the guard to
\* waiting threads in first-in first-out order, so a thread inside lock()
\* gets it.  Nothing is assumed of callers, wakers or the reader.
LiveCall(h, n) ==
    /\ Sum(nw, Handles) < LiveWrites
    /\ Call(h, "write", n)

LiveNext ==
    \/ duplex_stream(1)
    \/ \E h \in Handles : clone(h)
    \/ \E h \in Handles : DropHandle(h)
    \/ \E h \in Handles, n \in 1..MaxLen : LiveCall(h, n)
    \/ \E h \in Handles : Repoll(h)
    \/ \E h \in Handles : Cancel(h)
    \/ \E h \in Handles : Lock(h)
    \/ \E h \in Handles : Inner(h)
    \/ \E c \in 1..MaxBuf : poll_read(1, c)
    \/ ReaderDrop(1)

FairSpec ==
    /\ Init /\ [][LiveNext]_vars
    /\ \A h \in Handles : WF_vars(Inner(h)) /\ SF_vars(Lock(h))

\* ---- helpers of the properties ----
Stream(p) == delivered[p] \o buffer[p]
Holders(p) == {h \in Handles : arc[h] = p /\ pc[h] = "inner"}
Waiting(p) == {h \in Handles : arc[h] = p /\ pc[h] = "lock"}
Parked(p) == {h \in Handles : arc[h] = p /\ pc[h] = "parked"}

RECURSIVE Root(_)
Root(h) == IF parent[h] = 0 THEN h ELSE Root(parent[h])

\* C1: at most one clone of a Shared-Pipe handle is inside the
\* exclusive-access section (holds the Mutex guard) at any time.
C1_MutualExclusion == \A p \in Pipes : Cardinality(Holders(p)) <= 1

C1_Witness ==
    \E h, g \in Handles :
        /\ h # g /\ arc[h] = 1 /\ arc[g] = 1
        /\ pc[h] = "inner" /\ pc[g] = "lock"
        /\ op[h] = "write" /\ op[g] = "flush"

\* C2: the bytes accepted by one write call are contiguous and in order in
\* the pipe's byte stream (read plus buffered): never split by bytes of a
\* write call of another clone.
C2_Contiguous ==
    \A p \in Pipes : \A i, j \in DOMAIN Stream(p) :
        (i < j /\ CallOf(Stream(p)[i]) = CallOf(Stream(p)[j])) =>
            /\ Stream(p)[j] - Stream(p)[i] = j - i
            /\ \A k \in i..j : CallOf(Stream(p)[k]) = CallOf(Stream(p)[i])

C2_Witness ==
    \E i, j, k \in DOMAIN Stream(1) :
        /\ i < j /\ CallOf(Stream(1)[i]) = CallOf(Stream(1)[j])
        /\ HandleOf(Stream(1)[k]) # HandleOf(Stream(1)[i])
        /\ \E g \in Handles : pc[g] = "inner" /\ op[g] = "write" /\ Waiting(1) # {}

\* C3: the bytes delivered to the reader (read plus buffered) are exactly
\* the segments the write calls reported accepted, in the order the calls
\* returned, each segment the first n bytes of its call's buffer: no byte
\* is lost, duplicated or altered.
IsCallPrefix(seg) ==
    /\ seg # <<>>
    /\ \A i \in DOMAIN seg : seg[i] = CallOf(seg[1]) * 10 + i

C3_NoLoss ==
    \A p \in Pipes :
        /\ Stream(p) = Flat(acc[p])
        /\ \A i \in DOMAIN acc[p] : IsCallPrefix(acc[p][i])
        /\ \A i, j \in DOMAIN acc[p] : i # j => CallOf(acc[p][i][1]) # CallOf(acc[p][j][1])

\* "A", "B", "C": a handle and its two clones have each written one byte.
C3_Witness ==
    /\ Len(Stream(1)) = 3
    /\ {HandleOf(Stream(1)[i]) : i \in DOMAIN Stream(1)} = {1, 2, 3}
    /\ \A h \in Handles : arc[h] = 1 /\ pc[h] = "idle" /\ nw[h] = 1

\* C4: a write, flush or shutdown called while a concurrent clone holds the
\* exclusive-access section reports "not yet ready" and returns: no task
\* ever sits inside the call waiting for the section.
C4_PendingWhenHeld ==
    [][\A h \in Handles :
          (/\ arc[h] # 0
           /\ pc[h] \in {"idle", "runnable"} /\ pc'[h] # pc[h] /\ op'[h] # "none"
           /\ Holders(arc[h]) # {}) =>
              (pc'[h] = "parked" /\ last'.h = h /\ last'.r = Pending)]_vars

\* C5: when the reader drains a full pipe on which two or more clones are
\* pending, every one of the pending writers is notified.
C5_AllPendingWoken ==
    [][\A p \in Pipes :
          (Len(buffer[p]) = MaxBuf /\ Len(buffer'[p]) < MaxBuf) =>
              \A h \in Parked(p) : pc'[h] = "runnable"]_vars

\* C6: dropping a pending write leaves the exclusive-access section free:
\* the dropped operation holds no guard, and whatever was cancelled or
\* dropped before, a call of a clone that is inside lock() gets the section
\* and its poll returns.
C6_CancelLeavesSectionFree ==
    /\ [][\A h \in Handles :
            (arc[h] # 0 /\ pc[h] \in {"parked", "runnable"} /\ pc'[h] = "idle") =>
                (locked'[arc[h]] => Holders(arc[h]) \ {h} # {})]_vars
    /\ \A h \in Handles : (pc[h] = "lock") ~> (pc[h] \notin {"lock", "inner"})

\* Clone h dropped a pending write (its waker is still stored in the pipe)
\* and a write of clone g then got the section.
C6_Witness ==
    \E h, g \in Handles :
        /\ h # g /\ arc[h] = 1 /\ arc[g] = 1
        /\ pc[h] = "idle" /\ write_waker[1] = h
        /\ pc[g] = "inner" /\ op[g] = "write"

\* C7: once the reader end is dropped, a write through any clone returns the
\* pipe's BrokenPipe error to the caller as it is, in that same poll: the
\* call is over (not pending, not retried) and no byte was accepted.
C7_BrokenPipe ==
    \A h \in Handles :
        (last.h = h /\ last.op = "write" /\ rpc[arc[h]] = "dropped") =>
            /\ last.r = BrokenPipe
            /\ pc[h] = "idle"

\* The write would have been pending on the full pipe had the reader lived.
C7_Witness ==
    \E h \in Handles :
        /\ last.h = h /\ last.op = "write" /\ arc[h] = 1
        /\ rpc[1] = "dropped" /\ Len(buffer[1]) = MaxBuf
        /\ last.r = BrokenPipe

\* C8: every write, flush and shutdown on a Null (Sink) handle returns in
\* its first poll: a write reports all len(b) bytes accepted, flush and
\* shutdown report done; none is ever pending or an error, and none changes
\* a pipe, a standard stream or any other handle.
C8_SinkImmediate ==
    [][\A h \in Handles :
          (kind[h] = "Sink" /\ (pc'[h] # pc[h] \/ last'.h = h)) =>
              /\ pc[h] = "idle" /\ pc'[h] = "idle"
              /\ last'.h = h
              /\ last'.r = Ready(IF last'.op = "write" THEN last'.len ELSE 0)
              /\ UNCHANGED <<pvars, rvars, svars, acc, locked, strong, hvars>>
              /\ \A g \in Handles \ {h} :
                    pc'[g] = pc[g] /\ op'[g] = op[g] /\ buf'[g] = buf[g]]_vars

\* A Sink write of the longest buffer while a pipe holds bytes.
C8_Witness ==
    \E h \in Handles :
        /\ kind[h] = "Sink" /\ last.h = h /\ last.op = "write"
        /\ last.len = MaxLen /\ last.r = Ready(MaxLen)
        /\ buffer[1] # <<>>

\* C9: the kind of a handle never changes once it is constructed, whatever
\* is written, flushed, shut down or cloned, and a clone gets the kind of
\* the handle it was cloned from.
C9_KindFixed ==
    [][\A h \in Handles :
          /\ kind[h] # "None" => kind'[h] = kind[h]
          /\ (kind[h] = "None" /\ kind'[h] # "None" /\ parent'[h] # 0) =>
                kind'[h] = kind[parent'[h]]]_vars

\* A clone of a Standard-Error handle that was written to.
C9_Witness ==
    \E h \in Handles :
        /\ parent[h] # 0 /\ kind[h] = "Stderr" /\ kind[parent[h]] = "Stderr"
        /\ nw[parent[h]] > 0

\* C10: a clone of a Shared-Pipe handle refers to the pipe of its original;
\* two handles share a pipe only if they descend from the same constructor
\* call; handles of the other kinds refer to no shared backend; and every
\* byte in a pipe was written through a handle of that pipe.
C10_SharedPipe ==
    /\ \A h \in Handles : kind[h] \in {"Stdout", "Stderr", "Sink"} => arc[h] = 0
    /\ \A h \in Handles : kind[h] = "DuplexStream" =>
            /\ arc[h] \in Pipes
            /\ parent[h] # 0 => arc[h] = arc[parent[h]]
    /\ \A h, g \in Handles : (arc[h] # 0 /\ arc[h] = arc[g]) => Root(h) = Root(g)
    /\ \A h, g \in Handles :
            (h # g /\ parent[h] = 0 /\ parent[g] = 0 /\ arc[h] # 0) => arc[h] # arc[g]
    /\ \A p \in Pipes : \A i \in DOMAIN Stream(p) : arc[HandleOf(Stream(p)[i])] = p
    /\ \A p \in Pipes : strong[p] = Cardinality({h \in Handles : live[h] /\ arc[h] = p})

\* Two pipes, each with bytes; pipe 1 got bytes through a clone.
C10_Witness ==
    \E h, g \in Handles :
        /\ parent[h] # 0 /\ arc[h] = 1 /\ arc[g] = 2
        /\ \E i \in DOMAIN Stream(1) : HandleOf(Stream(1)[i]) = h
        /\ \E i \in DOMAIN Stream(2) : HandleOf(Stream(2)[i]) = g

\* C11: the pipe's write half is released only by the drop of the last
\* clone: the pipe is closed only by a step that drops the last clone,
\* completes a shutdown or drops the reader; the reader has read
\* end-of-stream only from a closed, drained pipe; a write through a clone
\* of a pipe not yet closed never fails and is accepted when there is room,
\* whatever clones were dropped; and once the last clone is dropped the
\* pipe is closed and the reader is not left parked (its next read returns
\* the buffered bytes or end-of-stream).
C11_LastCloneReleases ==
    /\ [](\A p \in Pipes :
            /\ (rpc[p] = "eof") => (is_closed[p] /\ buffer[p] = <<>>)
            /\ (wrapped[p] /\ strong[p] = 0) => (is_closed[p] /\ rpc[p] # "parked"))
    /\ [][\A p \in Pipes :
            (~is_closed[p] /\ is_closed'[p]) =>
                \/ strong[p] = 1 /\ strong'[p] = 0
                \/ last'.op = "shutdown" /\ last'.h # 0 /\ arc[last'.h] = p
                \/ rpc'[p] = "dropped"]_vars
    /\ [][\A h \in Handles :
            (last'.h = h /\ last'.op = "write" /\ arc[h] # 0 /\ ~is_closed[arc[h]]) =>
                /\ last'.r.t # "BrokenPipe"
                /\ Len(buffer[arc[h]]) < MaxBuf => last'.r.t = "Ok"]_vars

\* A clone that had written was dropped, a write through a clone that is
\* left was then accepted, and the pipe is open with its reader reading.
C11_Witness ==
    \E h, g \in Handles :
        /\ h # g /\ arc[h] = 1 /\ arc[g] = 1
        /\ ~live[g] /\ live[h] /\ nw[g] > 0
        /\ last.h = h /\ last.op = "write" /\ last.r.t = "Ok"
        /\ ~is_closed[1] /\ rpc[1] = "run" /\ delivered[1] # <<>>

\* C12: clone never fails and never blocks: a handle of any kind with no
\* call of its own in progress can be cloned in every state (a free slot
\* given), also while another clone of its pipe holds the exclusive-access
\* section, waits for it or has a pending write; the clone is made in one
\* step that takes no Mutex and changes no call, no pipe and no stream.
C12_CloneNeverBlocks ==
    /\ [](\A h \in Handles :
            (live[h] /\ pc[h] = "idle" /\ Free # {}) => ENABLED clone(h))
    /\ [][\A c \in Handles :
            (kind[c] = "None" /\ kind'[c] # "None" /\ parent'[c] # 0) =>
                /\ live'[c] /\ pc'[c] = "idle"
                /\ last' = NoEvent
                /\ UNCHANGED <<pc, op, buf, locked, pvars, rvars, svars>>]_vars

\* Clone c of g exists and can be cloned again while g is inside a write
\* with the guard held.
C12_Witness ==
    \E c, g \in Handles :
        /\ parent[c] = g /\ arc[c] = 1
        /\ pc[g] = "inner" /\ op[g] = "write" /\ locked[1]
        /\ pc[c] = "idle" /\ Free # {}
        /\ ENABLED clone(c)

\* C13: writes of a single handle complete in call order: when one handle
\* alone has written to a pipe, the bytes the reader receives (read plus
\* buffered) are the accepted bytes of its write calls, in the order the
\* calls were issued and in buffer order within a call.
Writers(p) == {h \in Handles : arc[h] = p /\ nw[h] > 0}

C13_CallOrder ==
    \A p \in Pipes :
        Cardinality(Writers(p)) = 1 =>
            /\ Stream(p) = Flat(acc[p])
            /\ \A i, j \in DOMAIN Stream(p) : i < j => Stream(p)[i] < Stream(p)[j]
            /\ \A i \in DOMAIN Stream(p) : HandleOf(Stream(p)[i]) \in Writers(p)

\* One handle, no clone: three of its writes were accepted, the reader has
\* read some of the bytes and the others are buffered.
C13_Witness ==
    \E h \in Handles :
        /\ arc[h] = 1 /\ strong[1] = 1 /\ nw[h] = 3
        /\ \A g \in Handles \ {h} : kind[g] = "None"
        /\ Len(acc[1]) = 3 /\ Len(acc[1][1]) = 1
        /\ delivered[1] # <<>> /\ buffer[1] # <<>>

\* C14: writing through a Standard-Out (or Standard-Error) handle and its
\* clone is like writing through one handle: when a write on the original
\* was accepted before a write on its clone, the bytes of the clone's write
\* are at the destination only after those of the original's write.
Reached(k, seg) == \E n \in DOMAIN out[k] : out[k][n] = seg[1]

C14_SameAsOneHandle ==
    \A k \in {"Stdout", "Stderr"} : \A i, j \in DOMAIN sent[k] :
        (/\ i < j
         /\ parent[HandleOf(sent[k][j][1])] = HandleOf(sent[k][i][1])
         /\ Reached(k, sent[k][j])) => Reached(k, sent[k][i])

\* C15: every write, flush or shutdown on a Shared-Pipe handle releases the
\* exclusive-access section before it returns, whatever it returns: the
\* section is held exactly while a call is executing with the guard, it is
\* free in the state a call returns to, and so it is never held by a
\* pending (parked or woken) or finished call.
C15_ReleasedBeforeReturn ==
    /\ \A p \in Pipes : locked[p] <=> Holders(p) # {}
    /\ \A h \in Handles : (last.h = h /\ arc[h] # 0) => ~locked[arc[h]]

\* A write just returned pending on the full pipe; the section is free and
\* another clone is inside lock() about to get it.
C15_Witness ==
    \E h, g \in Handles :
        /\ h # g /\ arc[h] = 1 /\ arc[g] = 1
        /\ last.h = h /\ last.op = "write" /\ last.r = Pending /\ pc[h] = "parked"
        /\ pc[g] = "lock" /\ ~locked[1]

\* C16: shutdown on a Shared-Pipe handle is not reference-counted: a
\* shutdown that completes through any clone leaves the shared pipe closed,
\* however many clones are alive; a closed pipe stays closed; every write
\* through a clone of a closed pipe returns the broken-pipe error, is over
\* and adds no byte; and the reader of a closed pipe is never left parked
\* and reads end-of-stream only once the buffered bytes are drained.
C16_ShutdownClosesForAll ==
    /\ [][\A h \in Handles :
            (last'.h = h /\ last'.op = "shutdown" /\ arc[h] # 0) =>
                (is_closed'[arc[h]] /\ last'.r = Ready(0))]_vars
    /\ [][\A p \in Pipes : is_closed[p] => is_closed'[p]]_vars
    /\ [][\A g \in Handles :
            (last'.h = g /\ last'.op = "write" /\ arc[g] # 0 /\ is_closed[arc[g]]) =>
                /\ last'.r = BrokenPipe /\ pc'[g] = "idle"
                /\ buffer' = buffer /\ acc' = acc]_vars
    /\ [](\A p \in Pipes : is_closed[p] => rpc[p] # "parked")
    /\ [][\A p \in Pipes :
            (is_closed[p] /\ rpc[p] = "run" /\ rpc'[p] = "eof") => buffer[p] = <<>>]_vars

\* Clone h has just completed a shutdown while clone g, alive, is inside a
\* write call and bytes are still buffered for the living reader.
C16_Witness ==
    \E h, g \in Handles :
        /\ h # g /\ arc[h] = 1 /\ arc[g] = 1 /\ live[h] /\ live[g]
        /\ last.h = h /\ last.op = "shutdown" /\ is_closed[1]
        /\ pc[g] = "lock" /\ op[g] = "write"
        /\ buffer[1] # <<>> /\ rpc[1] = "run"

\* C17: a write on a Shared-Pipe handle that returns pending or an error,
\* and a flush on a handle of any kind, leave every pipe's buffered bytes,
\* the bytes already read and the live handles as they were; a write that
\* returns n accepted bytes has n > 0 and appends exactly the first n bytes
\* of its buffer at the end of its pipe's buffer, other pipes unchanged;
\* and a pipe's byte stream (read plus buffered) changes in no other step.
C17_Frame ==
    /\ [][\A h \in Handles :
            (/\ last'.h = h
             /\ \/ last'.op = "write" /\ arc[h] # 0 /\ last'.r.t \in {"Pending", "BrokenPipe"}
                \/ last'.op = "flush") =>
                UNCHANGED <<buffer, delivered, is_closed, hvars, strong>>]_vars
    /\ [][\A h \in Handles :
            (last'.h = h /\ last'.op = "write" /\ arc[h] # 0 /\ last'.r.t = "Ok") =>
                /\ last'.r.n > 0 /\ last'.r.n <= last'.len
                /\ buffer' = [buffer EXCEPT ![arc[h]] = @ \o Take(buf[h], last'.r.n)]
                /\ UNCHANGED <<delivered, is_closed, hvars, strong>>]_vars
    /\ [][\A p \in Pipes :
            (delivered'[p] \o buffer'[p] # Stream(p)) =>
                (last'.h # 0 /\ arc[last'.h] = p /\ last'.op = "write" /\ last'.r.t = "Ok")]_vars

\* A write through a clone has just returned pending on the pipe that a
\* write through its original had filled.
C17_Witness ==
    \E h \in Handles :
        /\ parent[h] # 0 /\ arc[h] = 1 /\ live[parent[h]]
        /\ last.h = h /\ last.op = "write" /\ last.r = Pending
        /\ Len(buffer[1]) = MaxBuf /\ HandleOf(buffer[1][1]) = parent[h]

====
